---- MODULE Spec2Model ----
(***************************************************************************)
(* Model of app.py of accent-detector: the accent classifier               *)
(* (simple_accent_classifier) and the download -> extract audio ->         *)
(* transcribe -> classify pipeline (process_video) with its temporary      *)
(* files.                                                                  *)
(*                                                                         *)
(* A Python str that the program inspects (the transcript) is a sequence   *)
(* of one-character strings; file names and messages are TLA+ strings.     *)
(* A Python value that may be None is a tuple of length 0 (None) or 1.     *)
(***************************************************************************)
EXTENDS Integers, Sequences, FiniteSets, TLC

VARIABLES pc, runs, url, video_file, audio_file, transcription, exc, ret,
          reported, calls, written, removed, disk

vars == <<pc, runs, url, video_file, audio_file, transcription, exc, ret,
          reported, calls, written, removed, disk>>

-----------------------------------------------------------------------------
(* Bounds *)

\* longest transcript, in words, among the free-form transcripts
MaxWords == 2
\* calls of process_video one session makes, one after the other
MaxRuns == 2
\* calls of process_video each of two concurrent sessions makes
MaxConcRuns == 1

-----------------------------------------------------------------------------
(* Python values *)

None == <<>>
Some(v) == <<v>>
\* truth value of a str-or-None in `if video_file and ...`
Truthy(v) == v # None /\ v[1] # ""

-----------------------------------------------------------------------------
(* str.lower and the substring test `word in text` *)

UpperChars == <<"A","B","C","D","E","F","G","H","I","J","K","L","M",
                "N","O","P","Q","R","S","T","U","V","W","X","Y","Z">>
LowerChars == <<"a","b","c","d","e","f","g","h","i","j","k","l","m",
                "n","o","p","q","r","s","t","u","v","w","x","y","z">>

LowerChar(c) ==
    IF \E i \in 1..Len(UpperChars) : UpperChars[i] = c
    THEN LowerChars[CHOOSE i \in 1..Len(UpperChars) : UpperChars[i] = c]
    ELSE c

lower(text) == [i \in 1..Len(text) |-> LowerChar(text[i])]

\* `word in text` for two strs
Contains(word, text) ==
    \E i \in 1..(Len(text) - Len(word) + 1) :
        \A j \in 1..Len(word) : text[i + j - 1] = word[j]

-----------------------------------------------------------------------------
(* The keyword lists *)

british_keywords ==
    << <<"c","o","l","o","u","r">>,
       <<"f","a","v","o","u","r","i","t","e">>,
       <<"r","e","a","l","i","s","e">>,
       <<"a","l","u","m","i","n","i","u","m">>,
       <<"l","o","r","r","y">>,
       <<"b","i","s","c","u","i","t">> >>

american_keywords ==
    << <<"c","o","l","o","r">>,
       <<"f","a","v","o","r","i","t","e">>,
       <<"r","e","a","l","i","z","e">>,
       <<"a","l","u","m","i","n","u","m">>,
       <<"t","r","u","c","k">>,
       <<"c","o","o","k","i","e">> >>

australian_keywords ==
    << <<"m","a","t","e">>,
       <<"a","r","v","o">>,
       <<"b","a","r","b","i","e">>,
       <<"b","r","e","k","k","i","e">> >>

\* the keys of the dict `scores`, in insertion order
ScoreKeys == <<"British", "American", "Australian">>

\* sum(word in text for word in keywords)
KeywordScore(keywords, text) ==
    Cardinality({i \in 1..Len(keywords) : Contains(keywords[i], text)})

\* the British and the American keyword lists taken for each other
ScoresSwapped(text) ==
    [British    |-> KeywordScore(american_keywords, text),
     American   |-> KeywordScore(british_keywords, text),
     Australian |-> KeywordScore(australian_keywords, text)]

\* the dict `scores` of the lower-cased text
Scores(text) ==
    [British    |-> KeywordScore(british_keywords, text),
     American   |-> KeywordScore(american_keywords, text),
     Australian |-> KeywordScore(australian_keywords, text)]

\* sum(scores.values())
Total(scores) == scores["British"] + scores["American"] + scores["Australian"]

-----------------------------------------------------------------------------
(* max(scores, key=scores.get): the first key, in iteration order, whose   *)
(* value no later key exceeds                                              *)

RECURSIVE MaxFrom(_, _, _, _)
MaxFrom(keys, scores, i, best) ==
    IF i > Len(keys) THEN best
    ELSE MaxFrom(keys, scores, i + 1,
                 IF scores[keys[i]] > scores[best] THEN keys[i] ELSE best)

RECURSIVE MaxFromLast(_, _, _, _)
MaxFromLast(keys, scores, i, best) ==
    IF i > Len(keys) THEN best
    ELSE MaxFromLast(keys, scores, i + 1,
                     IF scores[keys[i]] >= scores[best] THEN keys[i] ELSE best)

\* max() that keeps the last of several maximal keys
MaxKeyLast(keys, scores) == MaxFromLast(keys, scores, 2, keys[1])

MaxKey(keys, scores) == MaxFrom(keys, scores, 2, keys[1])

-----------------------------------------------------------------------------
(* IEEE 754 binary64 arithmetic of `scores[accent] / total * 100` and the  *)
(* truncation int().  A positive float is [m |-> bits, e |-> exponent]:    *)
(* 53 bits, most significant first and leading bit 1, of value m * 2^e.    *)

MantBits == 53

Front(s) == SubSeq(s, 1, Len(s) - 1)
Last(s) == s[Len(s)]

RECURSIVE Pow2(_)
Pow2(n) == IF n = 0 THEN 1 ELSE 2 * Pow2(n - 1)

\* the bit of weight 2^j
BitAt(bits, j) == IF j < Len(bits) THEN bits[Len(bits) - j] ELSE 0

\* the bits of weight 2^j and more of x + y, given the carry c into weight 2^j
RECURSIVE AddFrom(_, _, _, _)
AddFrom(x, y, c, j) ==
    LET s == BitAt(x, j) + BitAt(y, j) + c
    IN  IF j >= Len(x) /\ j >= Len(y) THEN (IF c = 1 THEN <<1>> ELSE <<>>)
        ELSE IF s >= 2 THEN Append(AddFrom(x, y, 1, j + 1), s - 2)
        ELSE Append(AddFrom(x, y, 0, j + 1), s)

\* x + y + c
AddBits(x, y, c) == AddFrom(x, y, c, 0)

\* bits + 1
IncBits(bits) == AddBits(bits, <<>>, 1)

\* bits * n, exactly
RECURSIVE TimesBits(_, _)
TimesBits(bits, n) ==
    IF n = 0 THEN <<>>
    ELSE LET half == Append(TimesBits(bits, n \div 2), 0)
         IN  IF n % 2 = 1 THEN AddBits(half, bits, 0) ELSE half

\* the value of a short bit string
RECURSIVE BitsValue(_)
BitsValue(bits) ==
    IF bits = <<>> THEN 0 ELSE 2 * BitsValue(Front(bits)) + Last(bits)

\* round to nearest, ties to even, the exact value bits * 2^e (leading bit 1)
RoundBits(bits, e) ==
    IF Len(bits) <= MantBits
    THEN [m |-> bits \o [i \in 1..(MantBits - Len(bits)) |-> 0],
          e |-> e - (MantBits - Len(bits))]
    ELSE LET keep == SubSeq(bits, 1, MantBits)
             rest == SubSeq(bits, MantBits + 1, Len(bits))
             up   == /\ rest[1] = 1
                     /\ \/ \E i \in 2..Len(rest) : rest[i] = 1
                        \/ Last(keep) = 1
             inc  == IncBits(keep)
         IN  IF ~up THEN [m |-> keep, e |-> e + Len(rest)]
             ELSE IF Len(inc) > MantBits
                  THEN [m |-> SubSeq(inc, 1, MantBits), e |-> e + Len(rest) + 1]
                  ELSE [m |-> inc, e |-> e + Len(rest)]

\* doublings of n until n >= d, and of d while n >= 2d
RECURSIVE ScaleUp(_, _)
ScaleUp(n, d) == IF n >= d THEN 0 ELSE 1 + ScaleUp(2 * n, d)
RECURSIVE ScaleDown(_, _)
ScaleDown(n, d) == IF n < 2 * d THEN 0 ELSE 1 + ScaleDown(n, 2 * d)

\* the remainder after count more quotient bits of r / d
RECURSIVE DivRem(_, _, _)
DivRem(r, d, count) ==
    IF count = 0 THEN r
    ELSE IF 2 * r >= d THEN DivRem(2 * r - d, d, count - 1)
         ELSE DivRem(2 * r, d, count - 1)

\* count more quotient bits of r / d
RECURSIVE DivBits(_, _, _)
DivBits(r, d, count) ==
    IF count = 0 THEN <<>>
    ELSE IF 2 * r >= d THEN <<1>> \o DivBits(2 * r - d, d, count - 1)
         ELSE <<0>> \o DivBits(2 * r, d, count - 1)

\* a / b of two positive ints: the correctly rounded quotient
FloatDiv(a, b) ==
    LET ku == ScaleUp(a, b)
        n  == a * Pow2(ku)
        kd == ScaleDown(n, b)
        d  == b * Pow2(kd)
        q  == <<1>> \o DivBits(n - d, d, MantBits - 1)
        r  == DivRem(n - d, d, MantBits - 1)
        e  == kd - ku - (MantBits - 1)
        up == \/ 2 * r > d
              \/ 2 * r = d /\ Last(q) = 1
        inc == IncBits(q)
    IN  IF ~up THEN [m |-> q, e |-> e]
        ELSE IF Len(inc) > MantBits
             THEN [m |-> SubSeq(inc, 1, MantBits), e |-> e + 1]
             ELSE [m |-> inc, e |-> e]

\* x * n for a float x and a positive int n that a float holds exactly
FloatTimesInt(x, n) == RoundBits(TimesBits(x.m, n), x.e)

\* int(x): truncation toward zero of a positive float
IntOf(x) ==
    IF x.e >= 0 THEN BitsValue(x.m \o [i \in 1..x.e |-> 0])
    ELSE IF Len(x.m) + x.e <= 0 THEN 0
    ELSE BitsValue(SubSeq(x.m, 1, Len(x.m) + x.e))


\* the truncation and the rounding to nearest of a positive float below 2^53
Truncated(x) == IntOf(x)
Rounded(x) ==
    LET k == Len(x.m) + x.e
    IN  IF k < 0 THEN 0 ELSE IF k >= Len(x.m) THEN IntOf(x) ELSE IntOf(x) + x.m[k + 1]

\* round(score / total * 100) in place of int(score / total * 100)
ConfidenceRounded(score, total) ==
    CHOOSE c \in {Rounded(FloatTimesInt(FloatDiv(s, t), 100)) :
                    s \in {score}, t \in {total}} : TRUE

\* int(scores[accent] / total * 100); the operands are evaluated once
Confidence(score, total) ==
    CHOOSE c \in {Truncated(FloatTimesInt(FloatDiv(s, t), 100)) :
                    s \in {score}, t \in {total}} : TRUE

-----------------------------------------------------------------------------
(* simple_accent_classifier *)

NoAccentLabel == "No accent detected"
NoAccentExplanation == "No accent keywords detected in the transcription."

Explanation(accent, confidence) ==
    "Detected keywords suggest " \o accent \o " accent with confidence "
        \o ToString(confidence) \o "%."

\* the result tuple of a label and its confidence
Result(accent, confidence) ==
    CHOOSE r \in {<<a, c, Explanation(a, c)>> : a \in {accent}, c \in {confidence}} : TRUE

\* the classifier without its `if total == 0` branch, dividing by 1 instead
ClassifyScoresNoZeroBranch(scores) ==
    LET total  == Total(scores)
        accent == MaxKey(ScoreKeys, scores)
    IN  Result(accent, Confidence(IF total = 0 THEN 1 ELSE scores[accent],
                                  IF total = 0 THEN 1 ELSE total))

\* from `total = sum(scores.values())` to the return
ClassifyScores(scores) ==
    LET total == Total(scores)
    IN  IF total = 0
        THEN <<NoAccentLabel, 0, NoAccentExplanation>>
        ELSE LET accent == MaxKey(ScoreKeys, scores)
             IN  Result(accent, Confidence(scores[accent], total))

\* text.lower(), the scores of the lower-cased text, and their classification
simple_accent_classifier(text0) ==
    CHOOSE r \in {ClassifyScores(scores) :
                    scores \in {Scores(text) : text \in {lower(text0)}}} : TRUE

-----------------------------------------------------------------------------
(* Inputs *)

\* the sessions of the web form; each runs the script in a thread of its own
Procs == {"s1", "s2"}
\* the session of the sequential specification
MainProc == "s1"

Urls == {"https://youtu.be/a", "https://youtu.be/b"}

\* words of the free-form transcripts: keywords of each label, upper-case
\* and mixed-case spellings, a word that contains a keyword, other words
Vocabulary ==
    { <<"c","o","l","o","u","r">>,
      <<"c","o","l","o","r">>,
      <<"m","a","t","e">>,
      <<"l","o","r","r","y">>,
      <<"C","O","L","O","U","R">>,
      <<"T","r","u","c","k">>,
      <<"a","u","t","o","m","a","t","e">>,
      <<"A","N","D">>,
      <<"h","e","l","l","o">> }

\* the words joined by single blanks
RECURSIVE Join(_)
Join(words) ==
    IF words = <<>> THEN <<>>
    ELSE IF Len(words) = 1 THEN words[1]
    ELSE words[1] \o <<" ">> \o Join(Tail(words))

FreeTexts ==
    {Join(ws) : ws \in UNION {[1..k -> Vocabulary] : k \in 0..MaxWords}}

\* one transcript for every triple of scores the keyword lists allow
LexiconTexts ==
    {Join(SubSeq(british_keywords, 1, i) \o SubSeq(american_keywords, 1, j)
            \o SubSeq(australian_keywords, 1, k)) :
        i \in 0..Len(british_keywords), j \in 0..Len(american_keywords),
        k \in 0..Len(australian_keywords)}

Transcripts == FreeTexts \cup LexiconTexts

\* the transcripts of the concurrent specification
ConcTranscripts ==
    { <<>>, <<"c","o","l","o","r"," ","m","a","t","e">> }

-----------------------------------------------------------------------------
(* Files *)

\* default of download_video's out_file
VideoPath == "downloaded_video.mp4"
\* default of extract_audio's audio_file
AudioPath == "audio.wav"

Paths == {VideoPath, AudioPath}

\* disk[f] is the session that wrote the file f last, or Absent
Absent == "absent"

Exists(f) == disk[f] # Absent

-----------------------------------------------------------------------------
(* process_video *)

StageOrder == <<"download_video", "extract_audio", "transcribe_audio",
                "simple_accent_classifier">>

\* the value of `return None, None, None, None`
AllNone == <<None, None, None, None>>
\* no return statement executed yet
NoReturn == <<>>

\* the message without the file name
NoAudioMessageUnnamed(file) == "No audio stream found"

\* RuntimeError(f"No audio stream found in {video_file}")
NoAudioMessage(file) == "No audio stream found in " \o file

DownloadFailure(wrote) ==
    IF wrote THEN "ERROR: Postprocessing failed" ELSE "ERROR: Unable to download video"
ExtractFailure(wrote) ==
    IF wrote THEN "MoviePy error: failed to write the audio file"
    ELSE "MoviePy error: failed to read the video file"
TranscribeFailure == "Failed to load audio"
RemoveFailure(file) == "[Errno 2] No such file or directory: " \o file

Init ==
    /\ pc = [p \in Procs |-> "idle"]
    /\ runs = [p \in Procs |-> 0]
    /\ url = [p \in Procs |-> None]
    /\ video_file = [p \in Procs |-> None]
    /\ audio_file = [p \in Procs |-> None]
    /\ transcription = [p \in Procs |-> None]
    /\ exc = [p \in Procs |-> None]
    /\ ret = [p \in Procs |-> NoReturn]
    /\ reported = [p \in Procs |-> <<>>]
    /\ calls = [p \in Procs |-> <<>>]
    /\ written = [p \in Procs |-> {}]
    /\ removed = [p \in Procs |-> <<>>]
    /\ disk = [f \in Paths |-> Absent]

\* the caller presses the button with a non-blank URL: process_video(u)
Start(p, u) ==
    /\ pc[p] \in {"idle", "returned", "raised"}
    /\ runs[p] < MaxRuns
    /\ pc' = [pc EXCEPT ![p] = "download"]
    /\ runs' = [runs EXCEPT ![p] = @ + 1]
    /\ url' = [url EXCEPT ![p] = Some(u)]
    /\ video_file' = [video_file EXCEPT ![p] = None]
    /\ audio_file' = [audio_file EXCEPT ![p] = None]
    /\ transcription' = [transcription EXCEPT ![p] = None]
    /\ exc' = [exc EXCEPT ![p] = None]
    /\ ret' = [ret EXCEPT ![p] = NoReturn]
    /\ reported' = [reported EXCEPT ![p] = <<>>]
    /\ calls' = [calls EXCEPT ![p] = <<>>]
    /\ written' = [written EXCEPT ![p] = {}]
    /\ removed' = [removed EXCEPT ![p] = <<>>]
    /\ UNCHANGED disk

\* a stage raises an exception of the type with the message: control passes
\* to the except clause
Raise(p, stage, type, message) ==
    /\ pc' = [pc EXCEPT ![p] = "except"]
    /\ calls' = [calls EXCEPT ![p] = Append(@, stage)]
    /\ exc' = [exc EXCEPT ![p] = Some([type |-> type, message |-> message])]

\* the stage writes the file f
WriteFile(p, f) ==
    /\ disk' = [disk EXCEPT ![f] = p]
    /\ written' = [written EXCEPT ![p] = @ \cup {f}]

\* video_file = download_video(url), the download succeeds
DownloadOk(p) ==
    /\ pc[p] = "download"
    /\ pc' = [pc EXCEPT ![p] = "extract"]
    /\ calls' = [calls EXCEPT ![p] = Append(@, "download_video")]
    /\ WriteFile(p, VideoPath)
    /\ video_file' = [video_file EXCEPT ![p] = Some(VideoPath)]
    /\ UNCHANGED <<runs, url, audio_file, transcription, exc, ret, reported, removed>>

\* download_video(url) raises, before or after the output file is on disk
DownloadFails(p) ==
    /\ pc[p] = "download"
    /\ \E wrote \in BOOLEAN :
        /\ Raise(p, "download_video", "DownloadError", DownloadFailure(wrote))
        /\ IF wrote THEN WriteFile(p, VideoPath) ELSE UNCHANGED <<disk, written>>
    /\ UNCHANGED <<runs, url, video_file, audio_file, transcription, ret, reported, removed>>

\* audio_file = extract_audio(video_file), the video has an audio stream
ExtractOk(p) ==
    /\ pc[p] = "extract"
    /\ Exists(video_file[p][1])
    /\ pc' = [pc EXCEPT ![p] = "transcribe"]
    /\ calls' = [calls EXCEPT ![p] = Append(@, "extract_audio")]
    /\ WriteFile(p, AudioPath)
    /\ audio_file' = [audio_file EXCEPT ![p] = Some(AudioPath)]
    /\ UNCHANGED <<runs, url, video_file, transcription, exc, ret, reported, removed>>

\* extract_audio(video_file), clip.audio is None
ExtractNoAudio(p) ==
    /\ pc[p] = "extract"
    /\ Exists(video_file[p][1])
    /\ Raise(p, "extract_audio", "RuntimeError", NoAudioMessage(video_file[p][1]))
    /\ UNCHANGED <<runs, url, video_file, audio_file, transcription, ret, reported,
                   written, removed, disk>>

\* extract_audio(video_file) raises in VideoFileClip or in write_audiofile
ExtractFails(p) ==
    /\ pc[p] = "extract"
    /\ \E wrote \in BOOLEAN :
        /\ wrote => Exists(video_file[p][1])
        /\ Raise(p, "extract_audio", "OSError", ExtractFailure(wrote))
        /\ IF wrote THEN WriteFile(p, AudioPath) ELSE UNCHANGED <<disk, written>>
    /\ UNCHANGED <<runs, url, video_file, audio_file, transcription, ret, reported, removed>>

\* transcription = transcribe_audio(audio_file), with a text among texts
TranscribeOk(p, texts) ==
    /\ pc[p] = "transcribe"
    /\ Exists(audio_file[p][1])
    /\ \E t \in texts : transcription' = [transcription EXCEPT ![p] = Some(t)]
    /\ pc' = [pc EXCEPT ![p] = "classify"]
    /\ calls' = [calls EXCEPT ![p] = Append(@, "transcribe_audio")]
    /\ UNCHANGED <<runs, url, video_file, audio_file, exc, ret, reported, written,
                   removed, disk>>

\* transcribe_audio(audio_file) raises and is called once more
TranscribeFailsRetry(p) ==
    /\ pc[p] = "transcribe"
    /\ Len(calls[p]) < Len(StageOrder)
    /\ calls' = [calls EXCEPT ![p] = Append(@, "transcribe_audio")]
    /\ UNCHANGED <<pc, runs, url, video_file, audio_file, transcription, exc, ret,
                   reported, written, removed, disk>>

\* transcribe_audio(audio_file) raises
TranscribeFails(p) ==
    /\ pc[p] = "transcribe"
    /\ Raise(p, "transcribe_audio", "RuntimeError", TranscribeFailure)
    /\ UNCHANGED <<runs, url, video_file, audio_file, transcription, ret, reported,
                   written, removed, disk>>

\* the classifier call and `return transcription, accent, confidence, explanation`
Classify(p) ==
    /\ pc[p] = "classify"
    /\ \E r \in {simple_accent_classifier(transcription[p][1])} :
        ret' = [ret EXCEPT ![p] = <<transcription[p], Some(r[1]), Some(r[2]), Some(r[3])>>]
    /\ pc' = [pc EXCEPT ![p] = "finally_video"]
    /\ calls' = [calls EXCEPT ![p] = Append(@, "simple_accent_classifier")]
    /\ UNCHANGED <<runs, url, video_file, audio_file, transcription, exc, reported,
                   written, removed, disk>>

\* the except clause without the st.error call
ExceptNoReport(p) ==
    /\ pc[p] = "except"
    /\ ret' = [ret EXCEPT ![p] = AllNone]
    /\ pc' = [pc EXCEPT ![p] = "finally_video"]
    /\ UNCHANGED <<runs, url, video_file, audio_file, transcription, exc, reported,
                   calls, written, removed, disk>>

\* except Exception as e: st.error(f"Error: {e}"); return None, None, None, None
Except(p) ==
    /\ pc[p] = "except"
    /\ reported' = [reported EXCEPT ![p] = Append(@, "Error: " \o exc[p][1].message)]
    /\ ret' = [ret EXCEPT ![p] = AllNone]
    /\ pc' = [pc EXCEPT ![p] = "finally_video"]
    /\ UNCHANGED <<runs, url, video_file, audio_file, transcription, exc, calls,
                   written, removed, disk>>

\* finally: if video_file and os.path.exists(video_file)
FinallyVideo(p) ==
    /\ pc[p] = "finally_video"
    /\ pc' = [pc EXCEPT ![p] =
                IF Truthy(video_file[p]) /\ Exists(video_file[p][1])
                THEN "remove_video" ELSE "finally_audio"]
    /\ UNCHANGED <<runs, url, video_file, audio_file, transcription, exc, ret,
                   reported, calls, written, removed, disk>>

\* os.remove(f) of a file that exists
Remove(p, f) ==
    /\ Exists(f)
    /\ disk' = [disk EXCEPT ![f] = Absent]
    /\ removed' = [removed EXCEPT ![p] = Append(@, f)]
    /\ UNCHANGED <<runs, url, video_file, audio_file, transcription, exc, ret,
                   reported, calls, written>>

\* os.remove(f) of a file that is gone: FileNotFoundError leaves the finally
\* clause and replaces the return
RemoveGone(p, f) ==
    /\ ~Exists(f)
    /\ pc' = [pc EXCEPT ![p] = "raised"]
    /\ exc' = [exc EXCEPT ![p] = Some([type |-> "FileNotFoundError", message |-> RemoveFailure(f)])]
    /\ ret' = [ret EXCEPT ![p] = NoReturn]
    /\ UNCHANGED <<runs, url, video_file, audio_file, transcription, reported,
                   calls, written, removed, disk>>

\* os.remove(video_file)
RemoveVideo(p) ==
    /\ pc[p] = "remove_video"
    /\ Remove(p, video_file[p][1])
    /\ pc' = [pc EXCEPT ![p] = "finally_audio"]

\* os.remove(video_file) after another session removed the file
RemoveVideoGone(p) ==
    /\ pc[p] = "remove_video"
    /\ RemoveGone(p, video_file[p][1])

\* a finally clause that leaves the audio file alone
FinallyAudioNoCleanup(p) ==
    /\ pc[p] = "finally_audio"
    /\ pc' = [pc EXCEPT ![p] = "returned"]
    /\ UNCHANGED <<runs, url, video_file, audio_file, transcription, exc, ret,
                   reported, calls, written, removed, disk>>

\* if audio_file and os.path.exists(audio_file); without a removal, the return
FinallyAudio(p) ==
    /\ pc[p] = "finally_audio"
    /\ pc' = [pc EXCEPT ![p] =
                IF Truthy(audio_file[p]) /\ Exists(audio_file[p][1])
                THEN "remove_audio" ELSE "returned"]
    /\ UNCHANGED <<runs, url, video_file, audio_file, transcription, exc, ret,
                   reported, calls, written, removed, disk>>

\* os.remove(audio_file) and the return
RemoveAudio(p) ==
    /\ pc[p] = "remove_audio"
    /\ Remove(p, audio_file[p][1])
    /\ pc' = [pc EXCEPT ![p] = "returned"]

\* os.remove(audio_file) after another session removed the file
RemoveAudioGone(p) ==
    /\ pc[p] = "remove_audio"
    /\ RemoveGone(p, audio_file[p][1])

-----------------------------------------------------------------------------
(* One session: process_video runs one call after the other *)

Next ==
    \/ \E u \in Urls : Start(MainProc, u)
    \/ DownloadOk(MainProc)
    \/ DownloadFails(MainProc)
    \/ ExtractOk(MainProc)
    \/ ExtractNoAudio(MainProc)
    \/ ExtractFails(MainProc)
    \/ TranscribeOk(MainProc, Transcripts)
    \/ TranscribeFails(MainProc)
    \/ Classify(MainProc)
    \/ Except(MainProc)
    \/ FinallyVideo(MainProc)
    \/ RemoveVideo(MainProc)
    \/ FinallyAudio(MainProc)
    \/ RemoveAudio(MainProc)

Spec == Init /\ [][Next]_vars

(* Two sessions: the steps of their calls of process_video interleave *)

\* a session calls process_video, MaxConcRuns times at most
StartConc(p, u) ==
    /\ runs[p] < MaxConcRuns
    /\ Start(p, u)

NextConc ==
    \E p \in Procs :
        \/ \E u \in Urls : StartConc(p, u)
        \/ DownloadOk(p)
        \/ DownloadFails(p)
        \/ ExtractOk(p)
        \/ ExtractNoAudio(p)
        \/ ExtractFails(p)
        \/ TranscribeOk(p, ConcTranscripts)
        \/ TranscribeFails(p)
        \/ Classify(p)
        \/ Except(p)
        \/ FinallyVideo(p)
        \/ RemoveVideo(p)
        \/ RemoveVideoGone(p)
        \/ FinallyAudio(p)
        \/ RemoveAudio(p)
        \/ RemoveAudioGone(p)

SpecConc == Init /\ [][NextConc]_vars

-----------------------------------------------------------------------------
(* Properties *)

\* process_video has returned to its caller
Returned(p) == pc[p] = "returned"
\* ... after all four stages completed
Succeeded(p) == Returned(p) /\ exc[p] = None
\* ... after a stage raised
Failed(p) == Returned(p) /\ exc[p] # None

\* the call is between its first statement and its exit
Active(p) == pc[p] \notin {"idle", "returned", "raised"}

\* how often the call has removed the file f
RemovalsOf(p, f) == Cardinality({i \in DOMAIN removed[p] : removed[p][i] = f})

\* the keywords, each with the label of its list
LabelledKeywords ==
    {<<"British", british_keywords[i]>> : i \in DOMAIN british_keywords}
    \cup {<<"American", american_keywords[i]>> : i \in DOMAIN american_keywords}
    \cup {<<"Australian", australian_keywords[i]>> : i \in DOMAIN australian_keywords}

\* the labelled keywords that occur in the text, whatever the case of its letters
KeywordsIn(text) == {k \in LabelledKeywords : Contains(k[2], lower(text))}

\* how many keywords of the label occur in the text
CountOf(label, text) == Cardinality({k \in KeywordsIn(text) : k[1] = label})

\* the transcript and the classification a successful call returns
ReturnedText(p) == ret[p][1][1]
ReturnedLabel(p) == ret[p][2][1]
ReturnedConfidence(p) == ret[p][3][1]
ReturnedExplanation(p) == ret[p][4][1]

\* C1: when process_video has returned, on whatever path, it has removed
\* every temporary file written during the call exactly once.
CleanupOnEveryExit ==
    \A p \in Procs :
        Returned(p) => \A f \in written[p] : RemovalsOf(p, f) = 1

\* C2: process_video returns either, all four stages completed and no error
\* reported, a transcript and a label, confidence and explanation that are
\* all present, or, a stage having failed and exactly one error (that of the
\* stage) reported, four absent values.
NoPartialResult ==
    \A p \in Procs :
        Returned(p) =>
            \/ /\ exc[p] = None
               /\ calls[p] = StageOrder
               /\ reported[p] = <<>>
               /\ Len(ret[p]) = 4
               /\ \A i \in 1..4 : ret[p][i] # None
               /\ ret[p][1] = transcription[p]
            \/ /\ exc[p] # None
               /\ Len(calls[p]) < Len(StageOrder)
               /\ reported[p] = <<"Error: " \o exc[p][1].message>>
               /\ ret[p] = <<None, None, None, None>>

\* a call whose audio extraction failed has returned
ExtractFailureReturned ==
    /\ Failed(MainProc)
    /\ calls[MainProc] = <<"download_video", "extract_audio">>
    /\ exc[MainProc][1].type = "OSError"

\* extract_audio raised its RuntimeError: the video has no audio stream
NoAudioSignalled(p) ==
    /\ exc[p] # None
    /\ exc[p][1].type = "RuntimeError"
    /\ calls[p] = <<"download_video", "extract_audio">>

\* C3: when extract_audio signals a video without audio stream, process_video
\* reports the no-audio-stream message that names the file, returns four
\* absent values, and the downloaded video is no longer on disk at the return.
NoAudioReportedAndCleaned ==
    \A p \in Procs :
        Returned(p) /\ NoAudioSignalled(p) =>
            /\ reported[p] = <<"Error: No audio stream found in downloaded_video.mp4">>
            /\ ret[p] = AllNone
            /\ ~Exists("downloaded_video.mp4")

\* a call on a video without audio stream has returned
NoAudioReturned ==
    /\ Returned(MainProc)
    /\ NoAudioSignalled(MainProc)
    /\ VideoPath \in written[MainProc]

\* C4: when a call that completed all four stages returns, neither the
\* downloaded video nor the extracted audio is on disk.
SuccessLeavesNoFiles ==
    \A p \in Procs :
        Succeeded(p) => ~Exists(VideoPath) /\ ~Exists(AudioPath)

\* a successful call has returned, both files written and removed
SuccessReturned ==
    /\ Succeeded(MainProc)
    /\ calls[MainProc] = StageOrder
    /\ written[MainProc] = {VideoPath, AudioPath}
    /\ removed[MainProc] = <<VideoPath, AudioPath>>

\* C5: while a call of process_video is under way, no step of another call
\* overwrites or removes a temporary file the call wrote and has not removed,
\* and no stage of another call reads it.
ExclusiveTempFiles ==
    [][\A p, q \in Procs :
         (p # q /\ pc'[q] # pc[q]) =>
             \A f \in Paths :
                 (Active(p) /\ f \in written[p] /\ disk[f] = p) =>
                     /\ disk'[f] = disk[f]
                     /\ ~(pc[q] = "extract" /\ pc'[q] = "transcribe"
                            /\ video_file[q] = Some(f))
                     /\ ~(pc[q] = "transcribe" /\ pc'[q] = "classify"
                            /\ audio_file[q] = Some(f))]_vars

\* C6: a transcript in which no keyword of any label occurs is classified
\* as "No accent detected" with confidence 0 and the fixed explanation.
NoKeywordNoAccent ==
    \A p \in Procs :
        (Succeeded(p) /\ KeywordsIn(ReturnedText(p)) = {}) =>
            /\ ReturnedLabel(p) = "No accent detected"
            /\ ReturnedConfidence(p) = 0
            /\ ReturnedExplanation(p) = "No accent keywords detected in the transcription."

\* a transcript of words, none of them a keyword, has been classified
NoKeywordClassified ==
    /\ Succeeded(MainProc)
    /\ ReturnedText(MainProc) = <<"h","e","l","l","o"," ","A","N","D">>
    /\ ReturnedLabel(MainProc) = NoAccentLabel

\* C7: the confidence is an integer from 0 to 100, and when a keyword occurs
\* it is the integer part of 100 * (count of the returned label) / (count of
\* all labels).
ConfidenceIsFloor ==
    \A p \in Procs :
        Succeeded(p) =>
            LET found == KeywordsIn(ReturnedText(p))
                total == Cardinality(found)
                won   == Cardinality({k \in found : k[1] = ReturnedLabel(p)})
            IN  /\ ReturnedConfidence(p) \in 0..100
                /\ total > 0 => ReturnedConfidence(p) = (100 * won) \div total

\* a confidence that is not a whole percentage: 6 of 16 keywords
InexactConfidenceReturned ==
    /\ Succeeded(MainProc)
    /\ Cardinality(KeywordsIn(ReturnedText(MainProc))) = 16
    /\ ReturnedConfidence(MainProc) = 37

\* C8: a transcript in which exactly one keyword occurs is classified with
\* the label of that keyword and confidence 100.
SingleKeywordWins ==
    \A p \in Procs :
        Succeeded(p) =>
            \A k \in LabelledKeywords :
                KeywordsIn(ReturnedText(p)) = {k} =>
                    /\ ReturnedLabel(p) = k[1]
                    /\ ReturnedConfidence(p) = 100

\* the only keyword in the transcript is an American one, in mixed case
SingleKeywordClassified ==
    /\ Succeeded(MainProc)
    /\ ReturnedText(MainProc) = <<"T","r","u","c","k">>
    /\ ReturnedLabel(MainProc) = "American"

\* the stage the call is about to invoke, 0 when it is past the stages
StageIndex(p) ==
    CASE pc[p] = "download"   -> 1
      [] pc[p] = "extract"    -> 2
      [] pc[p] = "transcribe" -> 3
      [] pc[p] = "classify"   -> 4
      [] OTHER                -> 0

\* C9: the stages of a call are invoked in the order download, extract audio,
\* transcribe, classify, each once at most and only after the one before it
\* completed; after a failure no stage is invoked and the failure stays; a
\* failed call returns the failed outcome; a call that has returned takes no
\* further step.
StagesInOrder ==
    /\ [](\A p \in Procs :
            /\ Len(calls[p]) <= Len(StageOrder)
            /\ calls[p] = SubSeq(StageOrder, 1, Len(calls[p]))
            /\ StageIndex(p) > 0 => (exc[p] = None /\ Len(calls[p]) = StageIndex(p) - 1)
            /\ Failed(p) => (ret[p] = AllNone /\ reported[p] # <<>>))
    /\ [][\A p \in Procs :
            runs'[p] = runs[p] =>
                /\ exc[p] # None => (exc'[p] = exc[p] /\ calls'[p] = calls[p])
                /\ Returned(p) =>
                      (pc'[p] = pc[p] /\ calls'[p] = calls[p] /\ ret'[p] = ret[p])]_vars

\* a call whose transcription failed has returned
TranscribeFailureReturned ==
    /\ Failed(MainProc)
    /\ calls[MainProc] = <<"download_video", "extract_audio", "transcribe_audio">>

\* C10: when a keyword occurs, no label counts more keywords than the
\* returned one, and every label before it in the order British, American,
\* Australian counts fewer.
FirstMaximalLabelWins ==
    \A p \in Procs :
        (Succeeded(p) /\ KeywordsIn(ReturnedText(p)) # {}) =>
            LET text  == ReturnedText(p)
                order == <<"British", "American", "Australian">>
            IN  \E w \in 1..3 :
                    /\ ReturnedLabel(p) = order[w]
                    /\ \A i \in 1..3 : CountOf(order[i], text) <= CountOf(order[w], text)
                    /\ \A i \in 1..(w - 1) : CountOf(order[i], text) < CountOf(order[w], text)

\* "color mate": American and Australian tie, American is returned with 50
TieClassified ==
    /\ Succeeded(MainProc)
    /\ ReturnedText(MainProc) = <<"c","o","l","o","r"," ","m","a","t","e">>
    /\ ReturnedLabel(MainProc) = "American"
    /\ ReturnedConfidence(MainProc) = 50

====
